---- MODULE Spec2Model ----
(***************************************************************************)
(* A model of the StudentScoreAnalyzer component (src/src/index.js).       *)
(*                                                                         *)
(* Numbers.  The component works on IEEE doubles; the model uses exact     *)
(* fixed-point integers:                                                   *)
(*   - numStudents, meanScore, stdDev : whole units (they come from        *)
(*     parseInt), or NaN;                                                  *)
(*   - a score and the cutoff         : tenths (75.3 is 753), or NaN;      *)
(*   - stats.mean, stats.standardDev, stats.median and the abscissa x of   *)
(*     the density curve               : hundredths (75.25 is 7525).       *)
(* NaN, undefined and Infinity are distinguished integers outside every     *)
(* range the program's finite numbers take; every operator tests for them  *)
(* before it does arithmetic, the way IEEE arithmetic propagates them.     *)
(* toFixed is modelled as rounding the decimal value to the nearest unit   *)
(* kept, a half going away from zero; on a double the half case follows    *)
(* the binary value.  No property below depends on the half case.          *)
(***************************************************************************)
EXTENDS Integers, Sequences, FiniteSets, TLC

VARIABLES
    scores,           \* useState([])   : the current sample
    numStudents,      \* useState(30)
    meanScore,        \* useState(75)
    stdDev,           \* useState(12)
    cutoffScore,      \* useState(75), in tenths
    statsMemo,        \* useMemo cell of stats: what its body read when it last ran
    histogramMemo,    \* useMemo cell of histogramData
    normalCurveMemo,  \* useMemo cell of normalCurveData
    cutoffStatsMemo,  \* useMemo cell of cutoffStats
    effectPending,    \* the committed render left the generateScores effect to run
    lastGen           \* history: the parameters of the last generateScores call

vars == <<scores, numStudents, meanScore, stdDev, cutoffScore, statsMemo,
          histogramMemo, normalCurveMemo, cutoffStatsMemo, effectPending, lastGen>>

----------------------------------------------------------------------------
(* Values *)

\* IEEE NaN: parseInt("") of a cleared number input, 0 * Infinity, 0 / 0.
NaN == -1000000

\* JavaScript undefined: a field of the empty stats object {}.
Undefined == -2000000

\* IEEE Infinity: Math.sqrt(-2 * Math.log(0)).
Infinity == 100000000

IsNaN(x) == x = NaN

IsNum(x) == x # NaN /\ x # Undefined

\* Bounds of the model.
MaxCount == 3

\* useState(30), scaled to the largest sample size the model enumerates.
InitNumStudents == MaxCount

\* Program constants.
InitMeanScore == 75

InitStdDev == 12

InitCutoffScore == 750

binSize == 5

\* What the user can type into the three number inputs (parseInt of the text:
\* any integer, or NaN for a cleared field) and where the slider can stand.
CountChoices == {NaN, -1, 0} \cup (1..MaxCount)

MeanChoices == {NaN, -10, 75, 104}

StdDevChoices == {NaN, 0, 12}

CutoffChoices == {500, 749, 750}

----------------------------------------------------------------------------
(* Arithmetic helpers *)

Min2(a, b) == IF a <= b THEN a ELSE b

Max2(a, b) == IF a >= b THEN a ELSE b

\* Math.round(a / b) for b > 0: the nearest integer, halves towards +Infinity.
RoundDiv(a, b) == (2 * a + b) \div (2 * b)

RECURSIVE SumSeq(_)
SumSeq(s) == IF s = << >> THEN 0 ELSE Head(s) + SumSeq(Tail(s))

RECURSIVE SumSq(_)
SumSq(s) == IF s = << >> THEN 0 ELSE Head(s) * Head(s) + SumSq(Tail(s))

HasNaN(s) == \E i \in 1..Len(s) : IsNaN(s[i])

\* Math.min(...s) and Math.max(...s): NaN as soon as one argument is NaN.
MathMin(s) == IF HasNaN(s) THEN NaN
              ELSE CHOOSE m \in {s[i] : i \in 1..Len(s)} : \A j \in 1..Len(s) : m <= s[j]

MathMax(s) == IF HasNaN(s) THEN NaN
              ELSE CHOOSE m \in {s[i] : i \in 1..Len(s)} : \A j \in 1..Len(s) : m >= s[j]

\* The integer nearest to sqrt(num / den), for num >= 0 and den > 0: the largest
\* k with (k - 1/2)^2 <= num / den, found by bisection on [lo, hi].
RECURSIVE RoundSqrt(_, _, _, _)
RoundSqrt(num, den, lo, hi) ==
    IF lo >= hi THEN lo
    ELSE LET k == (lo + hi + 1) \div 2
         IN  IF (k * k - k) * den <= num - ((den + 3) \div 4)
             THEN RoundSqrt(num, den, k, hi)
             ELSE RoundSqrt(num, den, lo, k - 1)

----------------------------------------------------------------------------
(* Sampler: generateScores *)

\* The values Math.random() returns, by index: u1 = 0 (the generator's range is
\* [0, 1)) and u1 = 0.5; u2 = 0, 0.25 and 0.5.
U1Levels == {0, 1}

U2Levels == {0, 1, 2}

Draws == U1Levels \X U2Levels

\* Math.sqrt(-2 * Math.log(u1)) in hundredths; "inf" for u1 = 0 (log 0 = -Infinity).
Radius(u1) == IF u1 = 0 THEN [inf |-> TRUE, v |-> 0] ELSE [inf |-> FALSE, v |-> 118]

\* Math.cos(2 * Math.PI * u2): its sign and its magnitude in hundredths.  At
\* u2 = 0.25 the double is 6.1e-17: positive, and 0 to every digit kept here.
Cosine(u2) == CASE u2 = 0 -> [sign |-> 1, v |-> 100]
                [] u2 = 1 -> [sign |-> 1, v |-> 0]
                [] OTHER  -> [sign |-> -1, v |-> 100]

\* Math.round(score * 10) for score = meanScore + stdDev * z0 of one draw: the
\* score in tenths before the clamp; NaN, Infinity or -Infinity where IEEE
\* arithmetic gives them.
RoundedScore(mean, sd, d) ==
    LET r == Radius(d[1])
        c == Cosine(d[2])
    IN  IF IsNaN(mean) \/ IsNaN(sd) THEN NaN
        ELSE IF r.inf
             THEN \* z0 = +-Infinity; stdDev * z0 is NaN when stdDev = 0
                  IF sd = 0 THEN NaN
                  ELSE IF (sd > 0) = (c.sign > 0) THEN Infinity ELSE -Infinity
             ELSE \* mean + stdDev * z0 in units of 1e-4, then Math.round(score * 10)
                  (mean * 10000 + sd * c.sign * r.v * c.v + 500) \div 1000

\* Clamp with 110 for the upper limit.
ClampTo110(t) == IF IsNaN(t) THEN NaN ELSE Max2(0, Min2(1100, t))

\* Math.max(0, Math.min(100, r)): NaN stays NaN.
Clamp(t) == IF IsNaN(t) THEN NaN ELSE Max2(0, Min2(1000, t))

\* One score of the loop body, in tenths, or NaN.
Score(mean, sd, d) == Clamp(RoundedScore(mean, sd, d))

\* newScores after the loop: numStudents pushes; none when numStudents is NaN or < 1.
LoopCount(n) == IF IsNaN(n) \/ n < 0 THEN 0 ELSE n

\* Array.prototype.sort((a, b) => a - b) on numbers: insertion into ascending order.
RECURSIVE InsertAsc(_, _)
InsertAsc(x, s) ==
    IF s = << >> THEN <<x>>
    ELSE IF x <= Head(s) THEN <<x>> \o s
         ELSE <<Head(s)>> \o InsertAsc(x, Tail(s))

RECURSIVE SortAsc(_)
SortAsc(s) == IF s = << >> THEN << >> ELSE InsertAsc(Head(s), SortAsc(Tail(s)))

Perms(s) ==
    LET n == Len(s)
        P == {p \in [1..n -> 1..n] : \A i, j \in 1..n : i # j => p[i] # p[j]}
    IN  {[i \in 1..n |-> s[p[i]]] : p \in P}

\* The arrays sort((a, b) => a - b) can leave.  With a NaN in the array the
\* comparator returns NaN (taken as 0) and is not a consistent comparator, so
\* the order is implementation-defined: any permutation.
SortOutcomes(s) == IF HasNaN(s) THEN Perms(s) ELSE {SortAsc(s)}

----------------------------------------------------------------------------
(* Descriptive Statistics Calculator: stats *)

\* Math.round(score) of a score in tenths: whole units.
MathRound(score) == IF IsNaN(score) THEN NaN ELSE RoundDiv(score, 10)

\* ModeStep with  frequency[rounded] >= maxFreq  for the first test: a tie
\* replaces the modes found so far.
ModeStepTieReplaces(acc, score) ==
    LET rounded == MathRound(score)
        old     == IF rounded \in DOMAIN acc.frequency THEN acc.frequency[rounded] ELSE 0
        freq    == [k \in DOMAIN acc.frequency \cup {rounded} |->
                       IF k = rounded THEN old + 1 ELSE acc.frequency[k]]
    IN  IF freq[rounded] >= acc.maxFreq
        THEN [frequency |-> freq, maxFreq |-> freq[rounded], modes |-> <<rounded>>]
        ELSE [frequency |-> freq, maxFreq |-> acc.maxFreq, modes |-> acc.modes]

\* One step of arr.forEach in getMode: acc is [frequency, maxFreq, modes], where
\* frequency is a function on the keys tallied so far.
ModeStep(acc, score) ==
    LET rounded == MathRound(score)
        old     == IF rounded \in DOMAIN acc.frequency THEN acc.frequency[rounded] ELSE 0
        freq    == [k \in DOMAIN acc.frequency \cup {rounded} |->
                       IF k = rounded THEN old + 1 ELSE acc.frequency[k]]
        inModes == \E i \in 1..Len(acc.modes) : acc.modes[i] = rounded
    IN  IF freq[rounded] > acc.maxFreq
        THEN [frequency |-> freq, maxFreq |-> freq[rounded], modes |-> <<rounded>>]
        ELSE IF freq[rounded] = acc.maxFreq /\ ~inModes
             THEN [frequency |-> freq, maxFreq |-> acc.maxFreq,
                   modes |-> Append(acc.modes, rounded)]
             ELSE [frequency |-> freq, maxFreq |-> acc.maxFreq, modes |-> acc.modes]

RECURSIVE ModeFold(_, _)
ModeFold(acc, arr) ==
    IF arr = << >> THEN acc ELSE ModeFold(ModeStep(acc, Head(arr)), Tail(arr))

\* getMode(arr): 'No mode', or the modes that join(', ') lists, in order.
getMode(arr) ==
    LET acc == ModeFold([frequency |-> << >>, maxFreq |-> 0, modes |-> << >>], arr)
    IN  IF Len(acc.modes) = Cardinality(DOMAIN acc.frequency)
        THEN [noMode |-> TRUE, modes |-> << >>]
        ELSE [noMode |-> FALSE, modes |-> acc.modes]

q1Index(n) == n \div 4

medianIndex(n) == n \div 2

\* q3Index with the factor of q1Index.
q3IndexQuarter(n) == n \div 4

q3Index(n) == (3 * n) \div 4

\* sorted[i] of a 0-based index, in 1-based sequences.
At(s, i) == s[i + 1]

\* The median field, in hundredths.
Median(sorted) ==
    LET n == Len(sorted)
        a == At(sorted, medianIndex(n) - 1)
        b == At(sorted, medianIndex(n))
    IN  IF n % 2 = 0
        THEN IF IsNaN(a) \/ IsNaN(b) THEN NaN ELSE 5 * (a + b)
        ELSE IF IsNaN(b) THEN NaN ELSE 10 * b

\* n * (sum of squared deviations from the mean), in tenths squared:
\* n * sum(s^2) - (sum s)^2.
Deviation(s) == Len(s) * SumSq(s) - SumSeq(s) * SumSeq(s)

\* mean.toFixed(2), in hundredths: sum / n; NaN as soon as one score is NaN.
StatsMean(s) == IF HasNaN(s) THEN NaN ELSE RoundDiv(10 * SumSeq(s), Len(s))

\* variance.toFixed(2), in hundredths: the squared deviations over n - 1, which
\* is 0 / 0 = NaN for n = 1.
StatsVariance(s) ==
    LET n == Len(s)
    IN  IF HasNaN(s) \/ n = 1 THEN NaN ELSE RoundDiv(Deviation(s), n * (n - 1))

\* standardDev.toFixed(2), in hundredths: Math.sqrt(variance).
StatsStandardDev(s) ==
    LET n == Len(s)
    IN  IF HasNaN(s) \/ n = 1 THEN NaN
        ELSE RoundSqrt(100 * Deviation(s), n * (n - 1), 0, 7100)

\* The object the stats useMemo body returns for the array s, whose sorted copy
\* [...scores].sort() came out as sorted.  mean, median, standardDev and variance
\* are the toFixed(2) strings as hundredths; min, max, q1, q3 the toFixed(1)
\* strings as tenths.  The empty array gives {}: every field undefined.
statsOf(s, sorted) ==
    LET n == Len(s)
    IN  IF n = 0
        THEN [count |-> Undefined, mean |-> Undefined, median |-> Undefined,
              mode |-> [noMode |-> TRUE, modes |-> << >>], min |-> Undefined,
              max |-> Undefined, q1 |-> Undefined, q3 |-> Undefined,
              standardDev |-> Undefined, variance |-> Undefined]
        ELSE [count       |-> n,
              mean        |-> StatsMean(s),
              median      |-> Median(sorted),
              mode        |-> getMode(s),
              min         |-> MathMin(s),
              max         |-> MathMax(s),
              q1          |-> At(sorted, q1Index(n)),
              q3          |-> At(sorted, q3Index(n)),
              standardDev |-> StatsStandardDev(s),
              variance    |-> StatsVariance(s)]

----------------------------------------------------------------------------
(* Histogram Builder: histogramData *)

\* Math.floor(x / binSize) * binSize and Math.ceil(x / binSize) * binSize of a
\* score x in tenths; the result is in whole units.
FloorToBin(x) == (x \div (10 * binSize)) * binSize

CeilToBin(x) == (-((-x) \div (10 * binSize))) * binSize

\* scores.filter(score => score >= i && score < i + binSize).length, i in units.
CountIn(s, i) ==
    Cardinality({k \in 1..Len(s) : ~IsNaN(s[k]) /\ s[k] >= 10 * i /\ s[k] < 10 * (i + binSize)})

\* BinCount with the loop test  i < maxScore.
BinCountExclusive(minScore, maxScore) ==
    IF IsNaN(minScore) \/ IsNaN(maxScore) \/ minScore >= maxScore THEN 0
    ELSE (maxScore - minScore) \div binSize

\* The number of passes of  for (i = minScore; i <= maxScore; i += binSize).
\* A NaN bound makes the test fail at once.
BinCount(minScore, maxScore) ==
    IF IsNaN(minScore) \/ IsNaN(maxScore) \/ minScore > maxScore THEN 0
    ELSE (maxScore - minScore) \div binSize + 1

\* The array the histogramData useMemo body returns.  range is the label
\* `${i}-${i + binSize - 1}` as the pair <<lo, hi>>; midpoint is in tenths.
histogramOf(s) ==
    IF Len(s) = 0 THEN << >>
    ELSE LET minScore == IF HasNaN(s) THEN NaN ELSE FloorToBin(MathMin(s))
             maxScore == IF HasNaN(s) THEN NaN ELSE CeilToBin(MathMax(s))
         IN  [k \in 1..BinCount(minScore, maxScore) |->
                LET i == minScore + (k - 1) * binSize
                IN  [range    |-> <<i, i + binSize - 1>>,
                     count    |-> CountIn(s, i),
                     midpoint |-> 10 * i + 5 * binSize]]

----------------------------------------------------------------------------
(* Density Curve Generator: normalCurveData *)

\* x.toFixed(1) of an x in hundredths, as tenths: the nearest tenth of |x|, the
\* sign put back.
ToFixed1(x) == IF x < 0 THEN -RoundDiv(-x, 10) ELSE RoundDiv(x, 10)

\* The value of the loop variable x in pass j (0-based), in hundredths:
\* mean - 4 * sd, then += 0.5 each pass.
CurveX(mean, sd, j) == mean - 4 * sd + 50 * j

\* The number of passes of  for (x = mean - 4 * sd; x <= mean + 4 * sd; x += 0.5).
CurvePasses(mean, sd) ==
    IF ~IsNum(mean) \/ ~IsNum(sd) THEN 0 ELSE (8 * sd) \div 50 + 1

\* BelowCutoff with the test  x < cutoffScore.
BelowCutoffStrict(x, cutoff) == x < 10 * cutoff

\* belowCutoff of one pass: x <= cutoffScore, x in hundredths, cutoff in tenths.
BelowCutoff(x, cutoff) == x <= 10 * cutoff

\* The array the normalCurveData useMemo body returns, given what it reads:
\* stats.mean and stats.standardDev (hundredths), scores.length and cutoffScore.
\* y is density(x; mean, sd) * scores.length * 5; the model keeps its scale
\* factor and leaves the Gaussian density itself uncomputed.
normalCurveOf(mean, sd, n, cutoff) ==
    IF mean = Undefined THEN << >>
    ELSE [k \in 1..CurvePasses(mean, sd) |->
            LET x == CurveX(mean, sd, k - 1)
            IN  [x           |-> ToFixed1(x),
                 scale       |-> n * 5,
                 belowCutoff |-> BelowCutoff(x, cutoff)]]

----------------------------------------------------------------------------
(* Threshold Classifier: cutoffStats *)

\* ((k / n) * 100).toFixed(1), in tenths of a percent.
Percent(k, n) == RoundDiv(1000 * k, n)

\* The object the cutoffStats useMemo body returns.  A comparison with NaN is false.
cutoffStatsOf(s, cutoff) ==
    IF Len(s) = 0 THEN [below |-> 0, above |-> 0, at |-> 0]
    ELSE LET num   == {k \in 1..Len(s) : ~IsNaN(s[k])}
             below == Cardinality({k \in num : s[k] < cutoff})
             above == Cardinality({k \in num : s[k] > cutoff})
             at    == Cardinality({k \in num : s[k] = cutoff})
         IN  [below |-> Percent(below, Len(s)),
              above |-> Percent(above, Len(s)),
              at    |-> Percent(at, Len(s))]

----------------------------------------------------------------------------
(* The component: state, render, handlers, effect *)

\* What the render shows: each useMemo cell holds the value its body returned
\* when it last ran, which is the body applied to what it read then.
stats == statsOf(statsMemo.scores, statsMemo.sorted)

histogramData == histogramOf(histogramMemo.scores)

normalCurveData ==
    normalCurveOf(normalCurveMemo.mean, normalCurveMemo.standardDev,
                  normalCurveMemo.n, normalCurveMemo.cutoff)

cutoffStats == cutoffStatsOf(cutoffStatsMemo.scores, cutoffStatsMemo.cutoff)

\* CurveDeps with cutoffScore left out of the list.
CurveDepsNoCutoff(mean, sd, n, cutoff) == <<mean, sd, n>>

\* The dependency list of the normalCurveData useMemo.
CurveDeps(mean, sd, n, cutoff) == <<mean, sd, n, cutoff>>

\* The dependency test of the cutoffStats useMemo, [scores, cutoffScore]: scores
\* is a new array exactly when setScores ran.
CutoffStatsStale(scoresSet, cutoff) == scoresSet \/ cutoff # cutoffStatsMemo.cutoff

\* One render of the component with the state (s, cutoff); scoresSet says that
\* setScores installed s (a new array) since the last render.  Each useMemo
\* re-runs its body exactly when one of its dependencies changed.
Render(s, scoresSet, cutoff) ==
    \E sorted \in (IF scoresSet THEN SortOutcomes(s) ELSE {statsMemo.sorted}) :
        \* stats.mean and stats.standardDev of this render: of the stats cell
        \* after its own dependency test
        LET read == IF scoresSet THEN s ELSE statsMemo.scores
            mean == IF Len(read) = 0 THEN Undefined ELSE StatsMean(read)
            sd   == IF Len(read) = 0 THEN Undefined ELSE StatsStandardDev(read)
            deps == CurveDeps(mean, sd, Len(s), cutoff)
        IN  /\ statsMemo' = IF scoresSet THEN [scores |-> s, sorted |-> sorted]
                             ELSE statsMemo
            /\ histogramMemo' = IF scoresSet THEN [scores |-> s] ELSE histogramMemo
            /\ normalCurveMemo' =
                   IF deps # normalCurveMemo.deps
                   THEN [deps |-> deps, mean |-> mean, standardDev |-> sd,
                         n |-> Len(s), cutoff |-> cutoff]
                   ELSE normalCurveMemo
            /\ cutoffStatsMemo' =
                   IF CutoffStatsStale(scoresSet, cutoff)
                   THEN [scores |-> s, cutoff |-> cutoff]
                   ELSE cutoffStatsMemo

\* The arrays newScores can hold after the loop of generateScores: one score
\* per pass, each from one pair of Math.random() values.
LoopOutcomes ==
    [1..LoopCount(numStudents) -> {Score(meanScore, stdDev, d) : d \in Draws}]

\* generateScores(): the loop, the in-place sort, setScores, and the render
\* that setScores causes.
generateScores ==
    \E sorted \in UNION {SortOutcomes(newScores) : newScores \in LoopOutcomes} :
        /\ scores' = sorted
        /\ Render(sorted, TRUE, cutoffScore)
        /\ lastGen' = [ran |-> TRUE, count |-> numStudents,
                       mean |-> meanScore, stdDev |-> stdDev]
        /\ UNCHANGED <<numStudents, meanScore, stdDev, cutoffScore>>

\* useEffect(() => { generateScores(); }, [generateScores]): runs after the
\* commit of the first render and of every render in which numStudents,
\* meanScore or stdDev (the useCallback dependencies) changed.
RunEffect ==
    /\ effectPending
    /\ generateScores
    /\ effectPending' = FALSE

\* onClick of the "Generate New Data" button.
ClickGenerate ==
    /\ ~effectPending
    /\ generateScores
    /\ effectPending' = FALSE

\* onChange of the three number inputs: setX(parseInt(e.target.value)) and the
\* render it causes.  A value equal to the state leaves the component as it is.
\* Pending effects run before the next event is handled.
setNumStudents(v) ==
    /\ ~effectPending
    /\ v # numStudents
    /\ numStudents' = v
    /\ Render(scores, FALSE, cutoffScore)
    /\ effectPending' = TRUE
    /\ UNCHANGED <<scores, meanScore, stdDev, cutoffScore, lastGen>>

setMeanScore(v) ==
    /\ ~effectPending
    /\ v # meanScore
    /\ meanScore' = v
    /\ Render(scores, FALSE, cutoffScore)
    /\ effectPending' = TRUE
    /\ UNCHANGED <<scores, numStudents, stdDev, cutoffScore, lastGen>>

setStdDev(v) ==
    /\ ~effectPending
    /\ v # stdDev
    /\ stdDev' = v
    /\ Render(scores, FALSE, cutoffScore)
    /\ effectPending' = TRUE
    /\ UNCHANGED <<scores, numStudents, meanScore, cutoffScore, lastGen>>

\* onChange of the cutoff slider: setCutoffScore(parseFloat(e.target.value)).
setCutoffScore(v) ==
    /\ ~effectPending
    /\ v # cutoffScore
    /\ cutoffScore' = v
    /\ Render(scores, FALSE, v)
    /\ UNCHANGED <<scores, numStudents, meanScore, stdDev, effectPending, lastGen>>

\* The state after the first render: no scores yet, every useMemo body has run
\* once on the empty array, and the mount effect is still to run.
Init ==
    /\ scores = << >>
    /\ numStudents = InitNumStudents
    /\ meanScore = InitMeanScore
    /\ stdDev = InitStdDev
    /\ cutoffScore = InitCutoffScore
    /\ statsMemo = [scores |-> << >>, sorted |-> << >>]
    /\ histogramMemo = [scores |-> << >>]
    /\ normalCurveMemo = [deps |-> CurveDeps(Undefined, Undefined, 0, InitCutoffScore),
                          mean |-> Undefined, standardDev |-> Undefined,
                          n |-> 0, cutoff |-> InitCutoffScore]
    /\ cutoffStatsMemo = [scores |-> << >>, cutoff |-> InitCutoffScore]
    /\ effectPending = TRUE
    /\ lastGen = [ran |-> FALSE, count |-> 0, mean |-> 0, stdDev |-> 0]

Next ==
    \/ RunEffect
    \/ ClickGenerate
    \/ \E v \in CountChoices : setNumStudents(v)
    \/ \E v \in MeanChoices : setMeanScore(v)
    \/ \E v \in StdDevChoices : setStdDev(v)
    \/ \E v \in CutoffChoices : setCutoffScore(v)

Spec == Init /\ [][Next]_vars

----------------------------------------------------------------------------
(* The four derivations on arbitrary samples *)

\* Largest sample the second specification installs.
MaxSampleLen == 5

\* Scores (tenths) the installed samples are made of.
SampleValues == {20, 70, 190, 745, 754, 1000}

Ascending(s) == \A i \in 1..(Len(s) - 1) : ~IsNaN(s[i]) /\ ~IsNaN(s[i + 1]) /\ s[i] <= s[i + 1]

\* The ascending arrays of up to MaxSampleLen scores.
Samples ==
    UNION {{s \in [1..n -> SampleValues] : Ascending(s)} : n \in 1..MaxSampleLen}

\* generateScores() run by the mount effect, with Math.random() ranging over
\* all its values instead of the tabulated Draws: the loop leaves numStudents
\* scores, the sort leaves them ascending.
InstallSample(s) ==
    /\ effectPending
    /\ Len(s) = LoopCount(numStudents)
    /\ scores' = s
    /\ Render(s, TRUE, cutoffScore)
    /\ lastGen' = [ran |-> TRUE, count |-> numStudents,
                   mean |-> meanScore, stdDev |-> stdDev]
    /\ effectPending' = FALSE
    /\ UNCHANGED <<numStudents, meanScore, stdDev, cutoffScore>>

\* The mounted component before the mount effect has run, for each sample size.
InitSample ==
    /\ scores = << >>
    /\ numStudents \in 1..MaxSampleLen
    /\ meanScore = InitMeanScore
    /\ stdDev = InitStdDev
    /\ cutoffScore = InitCutoffScore
    /\ statsMemo = [scores |-> << >>, sorted |-> << >>]
    /\ histogramMemo = [scores |-> << >>]
    /\ normalCurveMemo = [deps |-> CurveDeps(Undefined, Undefined, 0, InitCutoffScore),
                          mean |-> Undefined, standardDev |-> Undefined,
                          n |-> 0, cutoff |-> InitCutoffScore]
    /\ cutoffStatsMemo = [scores |-> << >>, cutoff |-> InitCutoffScore]
    /\ effectPending = TRUE
    /\ lastGen = [ran |-> FALSE, count |-> 0, mean |-> 0, stdDev |-> 0]

NextSample ==
    \/ \E s \in Samples : InstallSample(s)
    \/ \E v \in CutoffChoices : setCutoffScore(v)

SampleSpec == InitSample /\ [][NextSample]_vars

----------------------------------------------------------------------------
(* Properties *)

\* A Sample of the data model: every entry a score in [0, 100] (so no NaN).
IsSample(s) == \A i \in 1..Len(s) : s[i] >= 0 /\ s[i] <= 1000

\* Score s lies in the interval the bin's label names: lo <= s < lo + 5.
InBin(s, bin) == s >= 10 * bin.range[1] /\ s < 10 * (bin.range[1] + binSize)

\* C1. For a non-empty sample of scores in [0, 100], every score lies in
\* exactly one bin of the histogram, and the counts of the bins add up to the
\* length of the sample (also when the maximum is a multiple of 5).
C1_BinCountsSumToLength ==
    (Len(scores) > 0 /\ IsSample(scores)) =>
        LET bins == histogramData
        IN  /\ \A i \in 1..Len(scores) :
                   Cardinality({k \in 1..Len(bins) : InBin(scores[i], bins[k])}) = 1
            /\ SumSeq([k \in 1..Len(bins) |-> bins[k].count]) = Len(scores)

\* C1 witness: a sample whose maximum is 100, counted in the bin that starts at 100.
C1_Witness ==
    LET bins == histogramData
    IN  /\ Len(scores) > 1 /\ IsSample(scores)
        /\ MathMax(scores) = 1000 /\ MathMin(scores) < 1000
        /\ Len(bins) > 1
        /\ bins[Len(bins)].range = <<100, 104>>
        /\ bins[Len(bins)].count >= 1

\* The starts of the 5-wide bins that cover [floor(min/5)*5, ceil(max/5)*5).
HalfOpenStarts(s) ==
    {i \in FloorToBin(MathMin(s))..(CeilToBin(MathMax(s)) - 1) :
        (i - FloorToBin(MathMin(s))) % binSize = 0}

\* C2 (as claimed). When the maximum of a non-empty sample is not a multiple
\* of 5, the histogram has exactly the bins that cover
\* [floor(min/5)*5, ceil(max/5)*5), none starting at ceil(max/5)*5; for
\* [2, 7, 7, 19] these are the four bins 0-4: 1, 5-9: 2, 10-14: 0, 15-19: 1.
C2_BinsCoverHalfOpenRange ==
    (Len(scores) > 0 /\ IsSample(scores) /\ MathMax(scores) % (10 * binSize) # 0) =>
        LET bins == histogramData
        IN  /\ {bins[k].range[1] : k \in 1..Len(bins)} = HalfOpenStarts(scores)
            /\ scores = <<20, 70, 70, 190>> =>
                  [k \in 1..Len(bins) |-> <<bins[k].range, bins[k].count>>]
                    = << <<(<<0, 4>>), 1>>, <<(<<5, 9>>), 2>>,
                         <<(<<10, 14>>), 0>>, <<(<<15, 19>>), 1>> >>

\* The parameters of the last generateScores call are SampleParameters:
\* count >= 1, a real mean, stdDev > 0.
LastGenValid ==
    /\ lastGen.ran
    /\ lastGen.count >= 1
    /\ ~IsNaN(lastGen.mean)
    /\ lastGen.stdDev > 0

\* C3. Whenever the Sampler ran on SampleParameters (count >= 1, any mean,
\* stdDev > 0), whatever Math.random() returned (0 included), every score of
\* the sample it installed lies in [0, 100].
C3_ScoresInRange ==
    LastGenValid => \A i \in 1..Len(scores) : scores[i] >= 0 /\ scores[i] <= 1000

\* C3 witness: a sample from valid parameters in which the clamp acted at
\* both ends, the mean itself being above 100.
C3_Witness ==
    /\ LastGenValid /\ lastGen.mean > 100
    /\ \E i \in 1..Len(scores) : scores[i] = 0
    /\ \E i \in 1..Len(scores) : scores[i] = 1000

\* C4 (as claimed). Every sample the Sampler installs is sorted non-decreasing
\* and as long as the count parameter it was generated from.
C4_SortedAndCounted ==
    lastGen.ran => Ascending(scores) /\ Len(scores) = lastGen.count

\* C5. For a non-empty sample, the reported quartiles and median are ordered:
\* Q1 <= median <= Q3 (q1 and q3 in tenths, median in hundredths).
C5_QuartilesOrdered ==
    (Len(scores) > 0 /\ IsSample(scores)) =>
        LET st == stats
        IN  /\ 10 * st.q1 <= st.median
            /\ st.median <= 10 * st.q3

\* C5 witness: an even-sized sample whose median is the average of two
\* different values and lies strictly between the quartiles.
C5_Witness ==
    /\ Len(scores) = 4 /\ IsSample(scores)
    /\ scores[2] < scores[3]
    /\ LET st == stats
       IN  10 * st.q1 < st.median /\ st.median < 10 * st.q3

\* The tally of getMode, stated on the array: the rounded values, how often
\* each occurs, and where each occurs first.
RoundedOf(s) == [i \in 1..Len(s) |-> MathRound(s[i])]

FrequencyOf(s, v) == Cardinality({i \in 1..Len(s) : RoundedOf(s)[i] = v})

FirstAt(s, v) == CHOOSE i \in 1..Len(s) :
                    /\ RoundedOf(s)[i] = v
                    /\ \A j \in 1..(i - 1) : RoundedOf(s)[j] # v

DistinctOf(s) == {RoundedOf(s)[i] : i \in 1..Len(s)}

MostFrequent(s) ==
    {v \in DistinctOf(s) : \A w \in DistinctOf(s) : FrequencyOf(s, w) <= FrequencyOf(s, v)}

\* C6. For a non-empty ascending sample, the mode is 'No mode' exactly when
\* all distinct rounded values are equally frequent; otherwise it lists
\* exactly the most frequent rounded values, each once, in the order of their
\* first occurrence in the sample.
C6_ModeIsMostFrequent ==
    (Len(scores) > 0 /\ IsSample(scores) /\ Ascending(scores)) =>
        LET m == stats.mode
        IN  /\ m.noMode <=> (MostFrequent(scores) = DistinctOf(scores))
            /\ ~m.noMode =>
                  /\ {m.modes[i] : i \in 1..Len(m.modes)} = MostFrequent(scores)
                  /\ Len(m.modes) = Cardinality(MostFrequent(scores))
                  /\ \A i, j \in 1..Len(m.modes) :
                         i < j => FirstAt(scores, m.modes[i]) < FirstAt(scores, m.modes[j])

\* C6 witness: two rounded values tie for the highest frequency and a third
\* is rarer, so the mode lists two values.
C6_Witness ==
    /\ Len(scores) > 0 /\ IsSample(scores) /\ Ascending(scores)
    /\ ~stats.mode.noMode
    /\ Len(stats.mode.modes) = 2

\* The loop variable x (hundredths) of the pass that produced point k.
PointX(k) == CurveX(normalCurveMemo.mean, normalCurveMemo.standardDev, k - 1)

\* belowCutoff is true on a prefix of the sequence and false on the rest: no
\* point that has it follows one that has it not.
BelowIsPrefix(curve) ==
    \A k \in 1..(Len(curve) - 1) : curve[k + 1].belowCutoff => curve[k].belowCutoff

\* C7 (as claimed). For every returned point, belowCutoff is true exactly
\* when the point's x value (the field x, one decimal) is <= the cutoff; and
\* belowCutoff is true on a prefix of the sequence.
C7_BelowIffReturnedX ==
    LET curve == normalCurveData
    IN  /\ \A k \in 1..Len(curve) :
               curve[k].belowCutoff <=> (curve[k].x <= cutoffScore)
        /\ BelowIsPrefix(curve)

\* C7 (amended). For every returned point, belowCutoff is true exactly when
\* the unrounded x the point was evaluated at is <= the cutoff.  The field x
\* is that x rounded to one decimal, so belowCutoff is true when the field is
\* below the cutoff, false when it is above, and either when it equals the
\* cutoff.  belowCutoff is true on a prefix of the sequence.
C7_BelowIffUnroundedX ==
    LET curve == normalCurveData
    IN  /\ \A k \in 1..Len(curve) :
               /\ curve[k].belowCutoff <=> (PointX(k) <= 10 * cutoffScore)
               /\ curve[k].x < cutoffScore => curve[k].belowCutoff
               /\ curve[k].x > cutoffScore => ~curve[k].belowCutoff
        /\ BelowIsPrefix(curve)

\* C7 witness: a curve with points on both sides of the cutoff, one of them
\* just above it whose field x rounds down to the cutoff.
C7_Witness ==
    LET curve == normalCurveData
    IN  /\ \E k \in 1..Len(curve) : curve[k].belowCutoff
        /\ \E k \in 1..Len(curve) : ~curve[k].belowCutoff
        /\ \E k \in 1..Len(curve) : curve[k].x = cutoffScore /\ ~curve[k].belowCutoff

\* C8. In every state the component presents, the statistics, the histogram,
\* the density points and the cutoff classification are those of the current
\* scores and the current cutoff.
C8_OutputsOfCurrentState ==
    /\ statsMemo.scores = scores
    /\ statsMemo.sorted \in SortOutcomes(scores)
    /\ histogramData = histogramOf(scores)
    /\ normalCurveData =
          LET st == statsOf(scores, statsMemo.sorted)
          IN  normalCurveOf(st.mean, st.standardDev, Len(scores), cutoffScore)
    /\ cutoffStats = cutoffStatsOf(scores, cutoffScore)

\* C8 witness: after a sample was generated the cutoff was moved, and the
\* curve shown has points on both sides of the new cutoff.
C8_Witness ==
    LET curve == normalCurveData
    IN  /\ lastGen.ran /\ cutoffScore # InitCutoffScore
        /\ \E k \in 1..Len(curve) : curve[k].belowCutoff
        /\ \E k \in 1..Len(curve) : ~curve[k].belowCutoff
        /\ cutoffStats.below > 0 /\ cutoffStats.above > 0

\* C9 (as claimed). A change of count, mean or stdDev re-runs the Sampler, so
\* that once no change is pending the current sample is as long as the
\* current count.
C9_SampleFollowsCount ==
    ~effectPending => Len(scores) = numStudents

\* C10 (as claimed). The Sampler runs only with stdDev > 0 and an integer
\* count >= 1, the Calculator never runs on a sample of size 1, and the
\* Density Curve Generator is never evaluated with a standard deviation <= 0.
C10_ParametersValidated ==
    /\ lastGen.ran => (lastGen.stdDev > 0 /\ lastGen.count >= 1)
    /\ Len(statsMemo.scores) # 1
    /\ (IsNum(normalCurveMemo.mean) /\ IsNum(normalCurveMemo.standardDev))
          => normalCurveMemo.standardDev > 0

====
